---- MODULE Spec2Model ----
(***************************************************************************)
(* Model of the ANNCSU update action (src/src/main_with_cli.py and         *)
(* src/src/geodiff_models.py): run_action loads a geodiff report,          *)
(* authenticates the CLI, and reconciles every entry of the report against *)
(* the ANNCSU registry through process_entry.                              *)
(*                                                                         *)
(* Floats are modelled as integers (one unit = one model step of a         *)
(* coordinate); Python values are tagged records so that values of          *)
(* different Python types stay comparable.                                  *)
(***************************************************************************)
EXTENDS Integers, Sequences, FiniteSets, TLC

VARIABLES
    source,       \* the geodiff_report argument of run_action (path or text)
    settings,     \* SettingsProtocol: codice_comune, coordinate_distance_threshold
    pc,           \* position of run_action: "load", "auth", "entries", "done", "raised"
    geodiff_obj,  \* result of load_geodiff_report: the parsed report or None
    idx,          \* number of entries process_all_entries has consumed
    results,      \* the list of EntryResult built by process_all_entries
    calls,        \* every call made on the CLI runner and on the SDK, in order
    set_failed,   \* messages passed to logger.set_failed
    auth,         \* the result authenticate_cli got from the CLI runner
    last,         \* what the latest process_entry call saw and logged
    ret,          \* run_action's return value: "none", "true", "false", or "raise"
    json_text,    \* round trip: the text at hand (the input, then to_json's output)
    reparsed,     \* round trip: GeodiffFile.from_json_text of to_json's output
    exit_status,  \* main: "none", "returned", "SystemExit(1)" or "raised"
    stdout,       \* main: the lines it printed
    collaborators,\* permutation: the SDK and the CLI runner as functions of their arguments
    permuted      \* permutation: the order applied to the report and the run on the result

vars ==
    <<source, settings, pc, geodiff_obj, idx, results, calls, set_failed, auth, last, ret,
      json_text, reparsed, exit_status, stdout, collaborators, permuted>>

-----------------------------------------------------------------------------
(* Bounds of the model *)

\* longest report drawn in Init
MaxEntries == 2

-----------------------------------------------------------------------------
(* Python primitives (geodiff_models.Primitive) as tagged records *)

Null == [k |-> "null", i |-> 0, s |-> ""]

IntV(n) == [k |-> "int", i |-> n, s |-> ""]

StrV(t) == [k |-> "str", i |-> 0, s |-> t]

BoolV(b) == [k |-> "bool", i |-> IF b THEN 1 ELSE 0, s |-> ""]

\* a float with value h/2 (so that non-integral floats exist)
FloatV(h) == [k |-> "float", i |-> h, s |-> ""]

\* float("inf"), which json.loads yields for a number beyond the float range
\* and for the constant Infinity
FloatInf == [k |-> "float", i |-> 1, s |-> "inf"]

\* Python truthiness of a primitive: None, 0, 0.0, False and "" are falsy
Truthy(v) ==
    CASE v.k = "null" -> FALSE
      [] v.k = "str" -> v.s # ""
      [] OTHER -> v.i # 0

\* Python's `a or b`
PyOr(a, b) == IF Truthy(a) THEN a ELSE b

Digits == <<"0", "1", "2", "3", "4", "5", "6", "7", "8", "9">>

RECURSIVE NatStr(_)
NatStr(n) == IF n < 10 THEN Digits[n + 1] ELSE NatStr(n \div 10) \o Digits[(n % 10) + 1]

\* str(n) for an int n
IntStr(n) == IF n < 0 THEN "-" \o NatStr(-n) ELSE NatStr(n)

\* str(f) for a float whose value is the integer n: "n.0"
FloatStr(n) == IntStr(n) \o ".0"

\* truncation toward zero of h/2, as int(float) does
TruncHalf(h) == IF h < 0 THEN -((-h) \div 2) ELSE h \div 2

\* the strings of the model that int() accepts, with their value
IntLiterals == {<<"7", 7>>, <<"-3", -3>>, <<"0", 0>>}

\* int(value) for a non-None primitive: [raised, exc, v]
PyInt(v) ==
    CASE v.k = "int" -> [raised |-> FALSE, exc |-> "none", v |-> v.i]
      [] v.k = "bool" -> [raised |-> FALSE, exc |-> "none", v |-> v.i]
      [] v.k = "float" ->
            IF v = FloatInf
            THEN [raised |-> TRUE, exc |-> "OverflowError", v |-> 0]
            ELSE [raised |-> FALSE, exc |-> "none", v |-> TruncHalf(v.i)]
      [] OTHER ->
            IF \E p \in IntLiterals : p[1] = v.s
            THEN [raised |-> FALSE, exc |-> "none",
                  v |-> (CHOOSE p \in IntLiterals : p[1] = v.s)[2]]
            ELSE [raised |-> TRUE, exc |-> "ValueError", v |-> 0]

\* str(value) for a non-None primitive
PyStr(v) ==
    CASE v.k = "str" -> v.s
      [] v.k = "int" -> IntStr(v.i)
      [] v.k = "bool" -> IF v.i = 1 THEN "True" ELSE "False"
      [] OTHER -> IF v = FloatInf THEN "inf"
                  ELSE IF v.i % 2 = 0 THEN FloatStr(v.i \div 2)
                  ELSE (IF v.i < 0 THEN "-" ELSE "") \o NatStr(TruncHalf(IF v.i < 0 THEN -v.i ELSE v.i))
                       \o ".5"

\* Optional values (int | None, str | None, float | None)
None == [some |-> FALSE, i |-> 0, s |-> ""]

SomeInt(n) == [some |-> TRUE, i |-> n, s |-> ""]

SomeStr(t) == [some |-> TRUE, i |-> 0, s |-> t]

-----------------------------------------------------------------------------
(* Report model (geodiff_models.py) *)

Change(c, o, n) == [column |-> c, old |-> o, new |-> n]

GeodiffEntry(t, ch) == [table |-> "addresses", type |-> t, changes |-> ch]

COLUMN_ADDRESS_ID == 0

COLUMN_GEOMETRY == 1

COLUMN_ROAD_ID == 2

-----------------------------------------------------------------------------
(* Geometry resolver: decode_gpkg_geometry, extract_coordinates_from_geometry,
   parse_gpkg_to_coordinates *)

\* the well-formed base64 strings of the model: characters of the alphabet
\* only, in padded groups of four
ValidBase64 == {"AAA=", "BBB=", "CCC=", "DDD=", "EEE=", "FFF=", "GGG=", "HHH=", "PPP="}

\* base64.b64decode is called without validate=True: it first discards every
\* character outside the alphabet ("AAA=!" is read as "AAA=")
Discarded(gpkg_base64) == IF gpkg_base64 = "AAA=!" THEN "AAA=" ELSE gpkg_base64

\* line 127: what is left after discarding decodes, or binascii.Error, a
\* subclass of ValueError, is raised
b64decode(gpkg_base64) ==
    IF Discarded(gpkg_base64) \in ValidBase64
    THEN [exc |-> "none", bytes |-> Discarded(gpkg_base64)]
    ELSE [exc |-> "ValueError", bytes |-> ""]

Geometry(valid, type, coords) == [is_valid |-> valid, geom_type |-> type, coords |-> coords]

\* the injected decoder (geodiff.create_wkb_from_gpkg_header followed by
\* wkb_loader on each element): the handles it yields for a payload, or the
\* exception it raises
GeometryDecoder(payload) ==
    CASE payload = "AAA=" -> [exc |-> "none", geoms |-> <<Geometry(TRUE, "Point", <<<<1, 1>>>>)>>]
      [] payload = "BBB=" -> [exc |-> "none", geoms |-> <<Geometry(TRUE, "Point", <<<<3, 1>>>>)>>]
      [] payload = "CCC=" -> [exc |-> "none", geoms |-> <<Geometry(FALSE, "Point", <<<<1, 1>>>>)>>]
      [] payload = "DDD=" -> [exc |-> "none", geoms |-> <<Geometry(TRUE, "LineString", <<<<0, 0>>, <<4, 4>>>>)>>]
      [] payload = "HHH=" -> [exc |-> "none", geoms |-> <<Geometry(FALSE, "LineString", <<<<0, 0>>, <<4, 4>>>>)>>]
      [] payload = "PPP=" -> [exc |-> "none", geoms |-> <<Geometry(TRUE, "Point", <<<<1, 1, 5>>>>)>>]
      [] payload = "EEE=" -> [exc |-> "none", geoms |-> <<>>]
      [] payload = "FFF=" -> [exc |-> "ValueError", geoms |-> <<>>]
      [] OTHER -> [exc |-> "RuntimeError", geoms |-> <<>>]

NoGeometry == Geometry(FALSE, "", <<>>)

\* decode_gpkg_geometry: [exc, geometry]
decode_gpkg_geometry(gpkg_base64) ==
    IF b64decode(gpkg_base64).exc # "none"
    THEN [exc |-> "ValueError", msg |-> "binascii.Error", geometry |-> NoGeometry]
    ELSE LET d == GeometryDecoder(b64decode(gpkg_base64).bytes) IN
         IF d.exc # "none"
         THEN [exc |-> d.exc, msg |-> "decoder", geometry |-> NoGeometry]
         ELSE IF Len(d.geoms) = 0
         THEN [exc |-> "IndexError", msg |-> "list index out of range", geometry |-> NoGeometry]
         ELSE [exc |-> "none", msg |-> "", geometry |-> d.geoms[1]]

\* extract_coordinates_from_geometry: [exc, msg, x, y]; line 150 unpacks the
\* first element of the coordinate list into x, y and raises ValueError when
\* it has not exactly two components
extract_coordinates_from_geometry(geometry) ==
    IF ~geometry.is_valid
    THEN [exc |-> "ValueError", msg |-> "Invalid geometry", x |-> 0, y |-> 0]
    ELSE IF geometry.geom_type # "Point"
    THEN [exc |-> "ValueError", msg |-> "Geometry is not a Point, got: " \o geometry.geom_type,
          x |-> 0, y |-> 0]
    ELSE IF Len(geometry.coords[1]) # 2
    THEN [exc |-> "ValueError", msg |-> "unpack", x |-> 0, y |-> 0]
    ELSE [exc |-> "none", msg |-> "", x |-> geometry.coords[1][1], y |-> geometry.coords[1][2]]

\* parse_gpkg_to_coordinates: [exc, msg, x, y]
parse_gpkg_to_coordinates(gpkg_base64) ==
    LET g == decode_gpkg_geometry(gpkg_base64) IN
    IF g.exc # "none"
    THEN [exc |-> g.exc, msg |-> g.msg, x |-> 0, y |-> 0]
    ELSE extract_coordinates_from_geometry(g.geometry)

-----------------------------------------------------------------------------
(* Entry field extractor *)

\* one iteration of the loop of extract_entry_data on `change`
ExtractStep(acc, change) ==
    LET value == PyOr(change.new, change.old)
        n == PyInt(value)
    IN  IF change.column = COLUMN_ADDRESS_ID
        THEN IF value.k = "null" THEN [acc EXCEPT !.address_id = None]
             ELSE IF n.raised THEN [acc EXCEPT !.exc = n.exc]
             ELSE [acc EXCEPT !.address_id = SomeInt(n.v)]
        ELSE IF change.column = COLUMN_GEOMETRY
        THEN IF value.k = "null" THEN [acc EXCEPT !.gpkg_geom = None]
             ELSE [acc EXCEPT !.gpkg_geom = SomeStr(PyStr(value))]
        ELSE IF change.column = COLUMN_ROAD_ID
        THEN IF value.k = "null" THEN [acc EXCEPT !.road_id = None]
             ELSE IF n.raised THEN [acc EXCEPT !.exc = n.exc]
             ELSE [acc EXCEPT !.road_id = SomeInt(n.v)]
        ELSE acc

RECURSIVE ExtractLoop(_, _, _)

\* the loop of extract_entry_data walking the changes from the last one
ExtractLoop_reversed(changes, n, acc) ==
    IF n > Len(changes) \/ acc.exc # "none" THEN acc
    ELSE ExtractLoop(changes, n + 1, ExtractStep(acc, changes[Len(changes) - n + 1]))

\* lines 197-206: the changes are read in the order of the list
ExtractLoop(changes, n, acc) ==
    IF n > Len(changes) \/ acc.exc # "none" THEN acc
    ELSE ExtractLoop(changes, n + 1, ExtractStep(acc, changes[n]))

\* extract_entry_data: [exc, address_id, road_id, gpkg_geom]
extract_entry_data(entry) ==
    ExtractLoop(entry.changes, 1,
                [exc |-> "none", address_id |-> None, road_id |-> None, gpkg_geom |-> None])

-----------------------------------------------------------------------------
(* Collaborator responses *)

\* a registry record (anncsu_record): stored coordinate and encoded geometry
Record(cx, cy, dug) == [coord_x |-> cx, coord_y |-> cy, dug |-> dug]

SomeFloat(n) == SomeInt(n)

\* the response of anncsu_sdk.pathparam.prognazarea_get_path_param, or the
\* exception the call raises
Response(exc, res, data) == [called |-> TRUE, exc |-> exc, res |-> res, data |-> data]

NoResponse == [called |-> FALSE, exc |-> "none", res |-> "", data |-> <<>>]

\* the result of cli_runner.invoke, or the exception the call raises
CliResult(exc, code) == [called |-> TRUE, exc |-> exc, exit_code |-> code]

NoResult == [called |-> FALSE, exc |-> "none", exit_code |-> 0]

Coordinates(x, y) == [some |-> TRUE, x |-> x, y |-> y]

NoCoordinates == [some |-> FALSE, x |-> 0, y |-> 0]

SdkCall(prognaz) == [target |-> "sdk", args |-> <<prognaz>>]

CliCall(args) == [target |-> "cli", args |-> args]

-----------------------------------------------------------------------------
(* Reconciliation engine: process_entry *)

Abs(n) == IF n < 0 THEN -n ELSE n

\* what one call of process_entry did: it returned `success` or raised `exc`,
\* logged `reason`, made `calls`, decoded `coords` from the entry, and consumed
\* `response` and `result` from its collaborators (when it called them)
Outcome(kind, success, exc, reason, made, coords, response, result) ==
    [kind |-> kind, success |-> success, exc |-> exc, reason |-> reason, calls |-> made,
     coords |-> coords, response |-> response, result |-> result]

Returns(success, reason, made, coords, response, result) ==
    Outcome("return", success, "none", reason, made, coords, response, result)

Raises(exc, reason, made, coords, response, result) ==
    Outcome("raise", FALSE, exc, reason, made, coords, response, result)

\* the argument list of the coordinate update command (lines 301-314)
UpdateArgs(cfg, address_id, x, y) ==
    <<"coordinate", "update",
      "--codcom", cfg.codice_comune,
      "--progr-civico", IF address_id # 0 THEN IntStr(address_id) ELSE "",
      "--x", FloatStr(x),
      "--y", FloatStr(y),
      "--metodo", "4">>

\* the comparison of process_entry with an inclusive tolerance
SameCoordinates_inclusive(cfg, anncsu_coords, coord_x, coord_y) ==
    /\ Abs(anncsu_coords.x - coord_x) <= cfg.coordinate_distance_threshold
    /\ Abs(anncsu_coords.y - coord_y) <= cfg.coordinate_distance_threshold

\* lines 286-296: TRUE when the update is skipped, given the decoded dug
SameCoordinates(cfg, anncsu_coords, coord_x, coord_y) ==
    /\ Abs(anncsu_coords.x - coord_x) < cfg.coordinate_distance_threshold
    /\ Abs(anncsu_coords.y - coord_y) < cfg.coordinate_distance_threshold

\* process_entry reading every exit status as a success
CommandFailed_never(result) == FALSE

\* line 316: `if result.exit_code != 0`
CommandFailed(result) == result.exit_code # 0

\* process_entry invoking the command a second time when it fails
UpdateCoordinates_retrying(cfg, address_id, coords, response, result) ==
    LET once == <<SdkCall(IntStr(address_id)),
                  CliCall(UpdateArgs(cfg, address_id, coords.x, coords.y))>>
        twice == Append(once, CliCall(UpdateArgs(cfg, address_id, coords.x, coords.y)))
    IN  IF result.exc # "none"
        THEN Raises(result.exc, "cli_raised", once, coords, response, result)
        ELSE IF CommandFailed(result)
        THEN Returns(FALSE, "cli_failed", twice, coords, response, result)
        ELSE Returns(TRUE, "updated", once, coords, response, result)

\* lines 298-320: the CLI call and the reading of its result
UpdateCoordinates(cfg, address_id, coords, response, result) ==
    LET made == <<SdkCall(IntStr(address_id)),
                  CliCall(UpdateArgs(cfg, address_id, coords.x, coords.y))>>
    IN  IF result.exc # "none"
        THEN Raises(result.exc, "cli_raised", made, coords, response, result)
        ELSE IF CommandFailed(result)
        THEN Returns(FALSE, "cli_failed", made, coords, response, result)
        ELSE Returns(TRUE, "updated", made, coords, response, result)

\* process_entry comparing as soon as one stored axis is present
HasStoredCoordinates_either(anncsu_record) ==
    anncsu_record.coord_x.some \/ anncsu_record.coord_y.some

\* lines 286-289: `coord_x is not None and coord_y is not None`
HasStoredCoordinates(anncsu_record) ==
    anncsu_record.coord_x.some /\ anncsu_record.coord_y.some

\* process_entry reading the records without looking at the status
LookupVerdict_any_status(response) ==
    IF Len(response.data) = 0 THEN "no_record"
    ELSE IF Len(response.data) > 1 THEN "multiple_records"
    ELSE "one"

\* lines 273-281: the reading of the lookup response
LookupVerdict(response) ==
    IF response.res # "OK" THEN "query_failed"
    ELSE IF Len(response.data) = 0 THEN "no_record"
    ELSE IF Len(response.data) > 1 THEN "multiple_records"
    ELSE "one"

\* process_entry comparing the stored coordinate with the entry's own
ComparedCoordinates_own(coords, anncsu_record) ==
    [exc |-> "none", msg |-> "", x |-> coords.x, y |-> coords.y]

\* line 290: the coordinate compared with the stored one is decoded from the
\* record's dug; the entry's coordinate is not looked at
ComparedCoordinates(coords, anncsu_record) == parse_gpkg_to_coordinates(anncsu_record.dug)

\* lines 267-320: the insert/update branch
InsertOrUpdate(cfg, address_id, coords, response, result) ==
    LET made == <<SdkCall(IntStr(address_id))>>
        anncsu_record == response.data[1]
        anncsu_coords == ComparedCoordinates(coords, anncsu_record)
    IN  IF response.exc # "none"
        THEN Raises(response.exc, "query_raised", made, coords, response, NoResult)
        ELSE IF LookupVerdict(response) # "one"
        THEN Returns(FALSE, LookupVerdict(response), made, coords, response, NoResult)
        ELSE IF HasStoredCoordinates(anncsu_record)
        THEN IF anncsu_coords.exc # "none"
             THEN Raises(anncsu_coords.exc, "dug_error", made, coords, response, NoResult)
             ELSE IF SameCoordinates(cfg, anncsu_coords,
                                     anncsu_record.coord_x.i, anncsu_record.coord_y.i)
             THEN Returns(TRUE, "same_coordinates", made, coords, response, NoResult)
             ELSE UpdateCoordinates(cfg, address_id, coords, response, result)
        ELSE UpdateCoordinates(cfg, address_id, coords, response, result)

\* process_entry handling every action that is no insert or update as a delete
IsDelete_otherwise(action) == TRUE

\* line 322: `elif action == "delete"`
IsDelete(action) == action = "delete"

\* process_entry propagating a delete to the registry as it does an update
Dispatch_delete_propagated(entry, cfg, address_id, coords, response, result) ==
    IF entry.type = "insert" /\ address_id < 0
    THEN Returns(FALSE, "negative_insert", <<>>, coords, NoResponse, NoResult)
    ELSE IF entry.type = "insert" \/ entry.type = "update" \/ entry.type = "delete"
    THEN InsertOrUpdate(cfg, address_id, coords, response, result)
    ELSE Returns(FALSE, "unknown_action", <<>>, coords, NoResponse, NoResult)

\* process_entry refusing every insert as it refuses the negative ones
Dispatch_insert_refused(entry, cfg, address_id, coords, response, result) ==
    IF entry.type = "insert"
    THEN Returns(FALSE, "negative_insert", <<>>, coords, NoResponse, NoResult)
    ELSE IF entry.type = "update"
    THEN InsertOrUpdate(cfg, address_id, coords, response, result)
    ELSE IF IsDelete(entry.type)
    THEN Returns(TRUE, "delete", <<>>, coords, NoResponse, NoResult)
    ELSE Returns(FALSE, "unknown_action", <<>>, coords, NoResponse, NoResult)

\* lines 257-329: what process_entry does once identifier and coordinates are known
Dispatch(entry, cfg, address_id, coords, response, result) ==
    IF entry.type = "insert" /\ address_id < 0
    THEN Returns(FALSE, "negative_insert", <<>>, coords, NoResponse, NoResult)
    ELSE IF entry.type = "insert" \/ entry.type = "update"
    THEN InsertOrUpdate(cfg, address_id, coords, response, result)
    ELSE IF IsDelete(entry.type)
    THEN Returns(TRUE, "delete", <<>>, coords, NoResponse, NoResult)
    ELSE Returns(FALSE, "unknown_action", <<>>, coords, NoResponse, NoResult)

\* process_entry without the check of line 240
AddressIsNone_unchecked(d) == FALSE

\* line 240: `address_id is None`
AddressIsNone(d) == ~d.address_id.some

\* process_entry entering the decoding branch whatever gpkg_geom is
GeometryPresent_always(d) == TRUE

\* line 245: `if gpkg_geom:` (neither None nor the empty string)
GeometryPresent(d) == d.gpkg_geom.some /\ d.gpkg_geom.s # ""

\* process_entry without the try/except of lines 246-252
CaughtByExcept_nothing(exc) == FALSE

\* line 250: `except ValueError` catches ValueError and its subclasses only
CaughtByExcept(exc) == exc = "ValueError"

\* process_entry, given the response the SDK would give and the result the CLI
\* runner would give if called
process_entry(entry, cfg, response, result) ==
    LET d == extract_entry_data(entry)
        parsed == parse_gpkg_to_coordinates(d.gpkg_geom.s)
    IN  IF d.exc # "none"
        THEN Raises(d.exc, "extract_error", <<>>, NoCoordinates, NoResponse, NoResult)
        ELSE IF AddressIsNone(d)
        THEN Returns(FALSE, "no_address_id", <<>>, NoCoordinates, NoResponse, NoResult)
        ELSE IF GeometryPresent(d)
        THEN IF CaughtByExcept(parsed.exc)
             THEN Returns(FALSE, "geometry_error", <<>>, NoCoordinates, NoResponse, NoResult)
             ELSE IF parsed.exc # "none"
             THEN Raises(parsed.exc, "geometry_raised", <<>>, NoCoordinates, NoResponse, NoResult)
             ELSE Dispatch(entry, cfg, d.address_id.i, Coordinates(parsed.x, parsed.y),
                           response, result)
        ELSE Returns(FALSE, "no_geometry", <<>>, NoCoordinates, NoResponse, NoResult)

-----------------------------------------------------------------------------
(* Report loading: GeodiffFile.from_json_text, from_path, load_geodiff_report *)

\* a text to parse: not JSON, JSON violating the schema, or a valid report;
\* "unreadable" is a file whose read fails
Content(kind, geodiff) == [kind |-> kind, geodiff |-> geodiff]

NotJson == Content("notjson", <<>>)

BadSchema == Content("badschema", <<>>)

Unreadable == Content("unreadable", <<>>)

ValidReport(geodiff) == Content("ok", geodiff)

\* Optional GeodiffFile
NoReport == [some |-> FALSE, geodiff |-> <<>>]

GeodiffFile(geodiff) == [some |-> TRUE, geodiff |-> geodiff]

\* a JSON text given token by token: whether it is well-formed, the keys of
\* its top-level object and the array under "geodiff", every scalar being the
\* literal written in the text ("" for a key that is not written)
JsonText(wellformed, keys, entries) ==
    [kind |-> "json", wellformed |-> wellformed, keys |-> keys, geodiff |-> entries]

JsonEntry(table, type, changes) == [table |-> table, type |-> type, changes |-> changes]

JsonChange(column, old, new) == [column |-> column, old |-> old, new |-> new]

\* a JSON string literal
Quote(t) == "\"" \o t \o "\""

\* the value of a key that the text does not write
Absent == [k |-> "absent", i |-> 0, s |-> ""]

\* the scalar literals json.loads accepts, with the Python value of each
JsonScalars ==
    { <<"null", Null>>, <<"true", BoolV(TRUE)>>, <<"false", BoolV(FALSE)>>,
      <<"0", IntV(0)>>, <<"1", IntV(1)>>, <<"2", IntV(2)>>, <<"7", IntV(7)>>,
      <<"-1", IntV(-1)>>,
      <<"0.0", FloatV(0)>>, <<"1.0", FloatV(2)>>, <<"1e0", FloatV(2)>>,
      <<"2.5", FloatV(5)>>, <<"7.0", FloatV(14)>>,
      <<"1e999", FloatInf>>, <<"Infinity", FloatInf>>,
      <<"\"\"", StrV("")>>, <<"\"AAA=\"", StrV("AAA=")>>, <<"\"7\"", StrV("7")>> }

Loadable(literal) == literal = "" \/ \E p \in JsonScalars : p[1] = literal

LoadScalar(literal) ==
    IF literal = "" THEN Absent ELSE (CHOOSE p \in JsonScalars : p[1] = literal)[2]

\* json.loads (line 31): [exc, keys, geodiff], the scalars as Python values
json_loads(content) ==
    IF \/ ~content.wellformed
       \/ \E e \in 1..Len(content.geodiff) : \E c \in 1..Len(content.geodiff[e].changes) :
             \/ ~Loadable(content.geodiff[e].changes[c].column)
             \/ ~Loadable(content.geodiff[e].changes[c].old)
             \/ ~Loadable(content.geodiff[e].changes[c].new)
    THEN [exc |-> "JSONDecodeError", keys |-> {}, geodiff |-> <<>>]
    ELSE [exc |-> "none", keys |-> content.keys,
          geodiff |->
            [e \in 1..Len(content.geodiff) |->
               [table |-> content.geodiff[e].table,
                type |-> content.geodiff[e].type,
                changes |->
                  [c \in 1..Len(content.geodiff[e].changes) |->
                     [column |-> LoadScalar(content.geodiff[e].changes[c].column),
                      old |-> LoadScalar(content.geodiff[e].changes[c].old),
                      new |-> LoadScalar(content.geodiff[e].changes[c].new)]]]]]

\* a GeodiffEntry accepting any string as its type
ValidType_any(t) == TRUE

\* `type: Literal["insert", "update", "delete"]` (line 21)
ValidType(t) == t \in {"insert", "update", "delete"}

\* `column: int` (line 14): an int, or a value that converts to one without loss
ValidColumn(v) ==
    \/ v.k \in {"int", "bool"}
    \/ v.k = "float" /\ v # FloatInf /\ v.i % 2 = 0
    \/ v.k = "str" /\ \E p \in IntLiterals : p[1] = v.s

ColumnOf(v) == IF v.k = "float" THEN v.i \div 2 ELSE PyInt(v).v

\* `Optional[Primitive] = Field(default=None)` (lines 15-16): the value keeps
\* its type; a key that is not written takes the default
PrimitiveOf(v) == IF v = Absent THEN Null ELSE v

\* model_validate (line 32) on what json.loads returned: [exc, file]
model_validate(data) ==
    IF \/ "geodiff" \notin data.keys
       \/ \E e \in 1..Len(data.geodiff) :
             \/ ~ValidType(data.geodiff[e].type)
             \/ \E c \in 1..Len(data.geodiff[e].changes) :
                   ~ValidColumn(data.geodiff[e].changes[c].column)
    THEN [exc |-> "ValidationError", file |-> NoReport]
    ELSE [exc |-> "none",
          file |-> GeodiffFile(
            [e \in 1..Len(data.geodiff) |->
               [table |-> data.geodiff[e].table,
                type |-> data.geodiff[e].type,
                changes |->
                  [c \in 1..Len(data.geodiff[e].changes) |->
                     Change(ColumnOf(data.geodiff[e].changes[c].column),
                            PrimitiveOf(data.geodiff[e].changes[c].old),
                            PrimitiveOf(data.geodiff[e].changes[c].new))]]])]

\* the JSON literal model_dump_json writes for a primitive; a float that is
\* not finite is written as null
JsonDump(v) ==
    CASE v.k = "null" -> "null"
      [] v.k = "bool" -> IF v.i = 1 THEN "true" ELSE "false"
      [] v.k = "int" -> IntStr(v.i)
      [] v.k = "str" -> Quote(v.s)
      [] OTHER -> IF v = FloatInf THEN "null" ELSE PyStr(v)

\* GeodiffFile.to_json: the text model_dump_json(indent=2) writes
to_json(file) ==
    JsonText(TRUE, {"geodiff"},
      [e \in 1..Len(file.geodiff) |->
         JsonEntry(file.geodiff[e].table, file.geodiff[e].type,
           [c \in 1..Len(file.geodiff[e].changes) |->
              JsonChange(IntStr(file.geodiff[e].changes[c].column),
                         JsonDump(file.geodiff[e].changes[c].old),
                         JsonDump(file.geodiff[e].changes[c].new))])])

\* GeodiffFile.from_json_text on a text of the given content: [exc, file]; a
\* text is given token by token (JsonText) or, for the run, by what parsing
\* makes of it (NotJson, BadSchema, ValidReport)
from_json_text(content) ==
    CASE content.kind = "notjson" -> [exc |-> "JSONDecodeError", file |-> NoReport]
      [] content.kind = "badschema" -> [exc |-> "ValidationError", file |-> NoReport]
      [] content.kind = "json" ->
            IF json_loads(content).exc # "none"
            THEN [exc |-> json_loads(content).exc, file |-> NoReport]
            ELSE model_validate(json_loads(content))
      [] OTHER -> [exc |-> "none", file |-> GeodiffFile(content.geodiff)]

\* GeodiffFile.from_path on a file of the given content: [exc, file]
from_path(content) ==
    IF content.kind = "unreadable" THEN [exc |-> "OSError", file |-> NoReport]
    ELSE from_json_text(content)

\* the geodiff_report argument: whether Path(source).exists() answers "yes",
\* "no" or raises ("error"), the content of that file, and what the argument
\* itself is when read as report text
Source(exists, file, text) == [exists |-> exists, file |-> file, text |-> text]

\* load_geodiff_report answering an empty report where it should answer None
load_geodiff_report_empty(src) ==
    IF src.exists = "yes" /\ from_path(src.file).exc = "none"
    THEN from_path(src.file).file
    ELSE IF from_json_text(src.text).exc = "none"
    THEN from_json_text(src.text).file
    ELSE GeodiffFile(<<>>)

\* load_geodiff_report: the parsed report or NoReport (None)
load_geodiff_report(src) ==
    IF src.exists = "yes" /\ from_path(src.file).exc = "none"
    THEN from_path(src.file).file
    ELSE from_json_text(src.text).file

-----------------------------------------------------------------------------
(* Inputs *)

AddressOld(n) == Change(COLUMN_ADDRESS_ID, IntV(n), Null)

AddressNew(n) == Change(COLUMN_ADDRESS_ID, Null, IntV(n))

GeomUpdate(o, n) == Change(COLUMN_GEOMETRY, StrV(o), StrV(n))

GeomOld(o) == Change(COLUMN_GEOMETRY, StrV(o), Null)

RoadOld(n) == Change(COLUMN_ROAD_ID, IntV(n), Null)

\* the entries the reports of a run are drawn from
Entries ==
    { GeodiffEntry("update", <<AddressOld(2), GeomUpdate("AAA=", "BBB="), RoadOld(9)>>),
      GeodiffEntry("insert", <<AddressOld(0), GeomOld("AAA=")>>),
      GeodiffEntry("delete", <<AddressOld(2), GeomOld("AAA="), RoadOld(9)>>),
      GeodiffEntry("delete", <<AddressOld(2), RoadOld(9)>>),
      GeodiffEntry("update", <<GeomUpdate("AAA=", "BBB="), RoadOld(9)>>),
      GeodiffEntry("update", <<AddressOld(2), RoadOld(9)>>),
      GeodiffEntry("insert", <<AddressNew(-1), GeomUpdate("AAA=", "BBB="), RoadOld(9)>>),
      GeodiffEntry("update", <<AddressOld(2), GeomUpdate("AAA=", "A")>>),
      GeodiffEntry("update", <<AddressOld(2), GeomUpdate("AAA=", "CCC=")>>),
      GeodiffEntry("insert", <<AddressNew(2), GeomUpdate("AAA=", "DDD=")>>),
      GeodiffEntry("update", <<AddressOld(2), GeomUpdate("AAA=", "EEE=")>>),
      GeodiffEntry("update", <<Change(COLUMN_ADDRESS_ID, Null, StrV("abc")),
                               GeomUpdate("AAA=", "BBB=")>>) }

\* the kinds an entry handed to process_entry may carry ("merge": none of the
\* three literals, possible only when the model validation is bypassed)
EntryTypes == {"insert", "update", "delete", "merge"}

\* the column 0 changes of the entries handed to process_entry directly
AddressChanges ==
    { <<>>,
      <<AddressOld(2)>>,
      <<AddressOld(0)>>,
      <<AddressNew(0)>>,
      <<AddressNew(-1)>>,
      <<Change(COLUMN_ADDRESS_ID, IntV(5), IntV(0))>>,
      <<Change(COLUMN_ADDRESS_ID, IntV(5), IntV(2))>>,
      <<Change(COLUMN_ADDRESS_ID, Null, StrV("7"))>>,
      <<Change(COLUMN_ADDRESS_ID, Null, StrV("abc"))>>,
      <<Change(COLUMN_ADDRESS_ID, Null, BoolV(TRUE))>>,
      <<Change(COLUMN_ADDRESS_ID, Null, FloatV(5))>> }

\* their column 1 changes
GeometryChanges ==
    { <<>>,
      <<Change(COLUMN_GEOMETRY, Null, Null)>>,
      <<Change(COLUMN_GEOMETRY, StrV("AAA="), StrV(""))>>,
      <<Change(COLUMN_GEOMETRY, StrV(""), Null)>>,
      <<GeomUpdate("AAA=", "BBB=")>>,
      <<GeomOld("AAA=")>>,
      <<GeomUpdate("AAA=", "A")>>,
      <<GeomUpdate("AAA=", "CCC=")>>,
      <<GeomUpdate("AAA=", "DDD=")>>,
      <<GeomUpdate("AAA=", "HHH=")>>,
      <<GeomUpdate("AAA=", "EEE=")>>,
      <<GeomUpdate("AAA=", "FFF=")>>,
      <<GeomUpdate("AAA=", "GGG=")>>,
      <<Change(COLUMN_GEOMETRY, Null, IntV(2))>> }

\* change lists that repeat a column or carry columns other than 0, 1 and 2
RepeatedChanges ==
    { <<AddressOld(5), AddressOld(2), GeomOld("AAA=")>>,
      <<AddressOld(2), GeomOld("AAA="), GeomOld("BBB=")>>,
      <<AddressOld(2), Change(7, StrV("abc"), Null), GeomOld("BBB="), Change(-1, IntV(4), Null)>>,
      <<Change(3, IntV(8), Null), AddressOld(2), GeomOld("BBB="), RoadOld(9), RoadOld(4)>>,
      <<AddressOld(2), Change(COLUMN_ADDRESS_ID, Null, Null), GeomOld("AAA=")>>,
      <<Change(COLUMN_ADDRESS_ID, Null, StrV("abc")), AddressOld(2), GeomOld("AAA=")>>,
      <<AddressOld(2), GeomOld("AAA="), Change(COLUMN_GEOMETRY, Null, Null)>>,
      <<Change(3, IntV(8), Null), AddressOld(5), Change(7, Null, StrV("x")), AddressNew(2),
        GeomOld("BBB="), GeomUpdate("BBB=", "AAA=")>> }

\* change lists whose geometry is base64 with a stray character, or a Point
\* with a third component
ResolverChanges ==
    { <<AddressOld(2), GeomUpdate("BBB=", "AAA=!"), RoadOld(9)>>,
      <<AddressOld(2), GeomUpdate("AAA=", "PPP="), RoadOld(9)>> }

\* the entries handed to process_entry directly
DirectEntries ==
    {GeodiffEntry(t, a \o g \o <<RoadOld(9)>>) :
        t \in EntryTypes, a \in AddressChanges, g \in GeometryChanges}
    \cup {GeodiffEntry("update", ch) : ch \in RepeatedChanges \cup ResolverChanges}

RECURSIVE SeqsUpTo(_, _)
SeqsUpTo(S, n) ==
    IF n = 0 THEN {<<>>}
    ELSE LET shorter == SeqsUpTo(S, n - 1)
         IN  shorter \cup {Append(q, e) : q \in shorter, e \in S}

\* the reports of at most MaxEntries entries
Reports == SeqsUpTo(Entries, MaxEntries)

\* the report sources: literal text, and files
Sources ==
    {Source("no", NotJson, c) : c \in {NotJson, BadSchema} \cup {ValidReport(r) : r \in Reports}}
    \cup {Source("yes", c, NotJson) :
            c \in {NotJson, BadSchema, Unreadable}
                  \cup {ValidReport(r) : r \in SeqsUpTo(Entries, 1)}}
    \cup {Source("yes", c, ValidReport(<<>>)) : c \in {NotJson, Unreadable}}
    \cup {Source("error", NotJson, ValidReport(<<>>))}

\* the distance thresholds of the settings, in model units
Thresholds == {1, 2}

Settings == [codice_comune : {"I501"}, coordinate_distance_threshold : Thresholds]

\* the registry records the SDK may return
Records ==
    { Record(None, None, "AAA="),
      Record(SomeFloat(1), None, "AAA="),
      Record(None, SomeFloat(1), "AAA="),
      Record(SomeFloat(1), SomeFloat(1), "AAA="),
      Record(SomeFloat(2), SomeFloat(1), "AAA="),
      Record(SomeFloat(3), SomeFloat(1), "AAA="),
      Record(SomeFloat(1), SomeFloat(3), "AAA="),
      Record(SomeFloat(3), SomeFloat(1), "BBB="),
      Record(SomeFloat(1), SomeFloat(1), "BBB="),
      Record(SomeFloat(1), SomeFloat(1), "CCC="),
      Record(None, None, "CCC="),
      Record(SomeFloat(0), SomeFloat(1), "AAA="),
      Record(SomeFloat(1), SomeFloat(2), "AAA="),
      Record(SomeFloat(1), None, "CCC=") }

\* what the SDK may answer to a lookup
Responses ==
    {Response("RuntimeError", "", <<>>), Response("none", "KO", <<>>),
     Response("none", "KO", <<Record(None, None, "AAA=")>>),
     Response("none", "OK", <<>>)}
    \cup {Response("none", "OK", <<r>>) : r \in Records}
    \cup {Response("none", "OK", <<Record(SomeFloat(3), SomeFloat(1), "AAA="),
                                   Record(SomeFloat(1), SomeFloat(1), "AAA=")>>)}

\* what the CLI runner may answer to an invocation
CliResults ==
    {CliResult("none", 0), CliResult("none", 1), CliResult("none", 2),
     CliResult("RuntimeError", 0)}

-----------------------------------------------------------------------------
(* run_action as a state machine *)

NoOutcome == Outcome("none", FALSE, "none", "", <<>>, NoCoordinates, NoResponse, NoResult)

\* no collaborator is fixed: each call is answered on its own
NoCollaborators == [sdk |-> <<>>, cli |-> <<>>]

\* no second run of process_all_entries
NoRun == [order |-> <<>>, ran |-> FALSE, ret |-> "none", results |-> <<>>, calls |-> <<>>]

\* a call of the log, tagged with the entry it was made for (0: authentication)
Tagged(c, n) == [target |-> c.target, args |-> c.args, entry |-> n]

RECURSIVE TagAll(_, _)
TagAll(cs, n) == IF cs = <<>> THEN <<>> ELSE <<Tagged(Head(cs), n)>> \o TagAll(Tail(cs), n)

\* an outcome recorded under a fixed kind instead of the entry's
EntryResult_as_update(type, success) ==
    [entry_type |-> "update", success |-> success, error_message |-> None]

\* line 368: EntryResult(entry_type=entry.type, success=success)
EntryResult(type, success) == [entry_type |-> type, success |-> success, error_message |-> None]

\* an authentication that invokes some other command
AuthArgs_other(api_type) == <<"coordinate", "update", "--api", api_type>>

\* line 429: the argument list of the authentication command
AuthArgs(api_type) == <<"auth", "login", "--api", api_type>>

\* authenticate_cli without the test of the exit code
authenticate_cli_any_exit(result) == result.exc = "none"

\* authenticate_cli: TRUE when the invocation returned exit code 0
authenticate_cli(result) == result.exc = "none" /\ result.exit_code = 0

\* any() where all() is meant
AllSuccess_any(rs) == \E k \in 1..Len(rs) : rs[k].success

\* all(r.success for r in results)
AllSuccess(rs) == \A k \in 1..Len(rs) : rs[k].success

Init ==
    /\ source \in Sources
    /\ settings \in Settings
    /\ pc = "load"
    /\ geodiff_obj = NoReport
    /\ idx = 0
    /\ results = <<>>
    /\ calls = <<>>
    /\ set_failed = <<>>
    /\ auth = NoResult
    /\ last = NoOutcome
    /\ ret = "none"
    /\ json_text = NotJson
    /\ reparsed = NoReport
    /\ exit_status = "none"
    /\ stdout = <<>>
    /\ collaborators = NoCollaborators
    /\ permuted = NoRun

\* run_action lines 477-481
LoadReport ==
    /\ pc = "load"
    /\ geodiff_obj' = load_geodiff_report(source)
    /\ IF geodiff_obj'.some
       THEN /\ pc' = "auth"
            /\ UNCHANGED <<set_failed, ret>>
       ELSE /\ pc' = "done"
            /\ set_failed' = Append(set_failed, "Could not load or validate geodiff report; aborting")
            /\ ret' = "false"
    /\ UNCHANGED <<source, settings, idx, results, calls, auth, last, json_text, reparsed,
                   exit_status, stdout,
                   collaborators, permuted>>

\* run_action lines 483-486
AuthenticateCli ==
    /\ pc = "auth"
    /\ \E result \in CliResults :
        /\ auth' = result
        /\ calls' = Append(calls, Tagged(CliCall(AuthArgs("pa")), 0))
        /\ IF authenticate_cli(result)
           THEN /\ pc' = "entries"
                /\ UNCHANGED <<set_failed, ret>>
           ELSE /\ pc' = "done"
                /\ set_failed' = Append(set_failed, "Failed to authenticate with ANNCSU CLI")
                /\ ret' = "false"
    /\ UNCHANGED <<source, settings, geodiff_obj, idx, results, last, json_text, reparsed,
                   exit_status, stdout,
                   collaborators, permuted>>

\* the ways process_entry can go on an entry, over every answer of the SDK and
\* of the CLI runner
EntryOutcomes(entry, cfg) ==
    {process_entry(entry, cfg, response, result) :
        response \in Responses, result \in CliResults}

\* the loop of process_all_entries walking the report from its last entry
ProcessNextEntry_backwards ==
    /\ pc = "entries"
    /\ idx < Len(geodiff_obj.geodiff)
    /\ \E o \in EntryOutcomes(geodiff_obj.geodiff[Len(geodiff_obj.geodiff) - idx], settings) :
        LET entry == geodiff_obj.geodiff[Len(geodiff_obj.geodiff) - idx]
        IN  /\ last' = o
            /\ calls' = calls \o TagAll(o.calls, Len(geodiff_obj.geodiff) - idx)
            /\ idx' = idx + 1
            /\ IF o.kind = "raise"
               THEN /\ pc' = "raised"
                    /\ ret' = "raise"
                    /\ UNCHANGED results
               ELSE /\ results' = Append(results, EntryResult(entry.type, o.success))
                    /\ UNCHANGED <<pc, ret>>
    /\ UNCHANGED <<source, settings, geodiff_obj, set_failed, auth, json_text, reparsed,
                   exit_status, stdout,
                   collaborators, permuted>>

\* one iteration of the loop of process_all_entries (lines 357-368)
ProcessNextEntry ==
    /\ pc = "entries"
    /\ idx < Len(geodiff_obj.geodiff)
    /\ \E o \in EntryOutcomes(geodiff_obj.geodiff[idx + 1], settings) :
        LET entry == geodiff_obj.geodiff[idx + 1]
        IN  /\ last' = o
            /\ calls' = calls \o TagAll(o.calls, idx + 1)
            /\ idx' = idx + 1
            /\ IF o.kind = "raise"
               THEN /\ pc' = "raised"
                    /\ ret' = "raise"
                    /\ UNCHANGED results
               ELSE /\ results' = Append(results, EntryResult(entry.type, o.success))
                    /\ UNCHANGED <<pc, ret>>
    /\ UNCHANGED <<source, settings, geodiff_obj, set_failed, auth, json_text, reparsed,
                   exit_status, stdout,
                   collaborators, permuted>>

\* run_action marking the run failed when an entry failed
Complete_marking_failed ==
    /\ pc = "entries"
    /\ idx = Len(geodiff_obj.geodiff)
    /\ ret' = IF AllSuccess(results) THEN "true" ELSE "false"
    /\ set_failed' = IF AllSuccess(results) THEN set_failed
                     ELSE Append(set_failed, "One or more ANNCSU CLI calls failed (see logs)")
    /\ pc' = "done"
    /\ UNCHANGED <<source, settings, geodiff_obj, idx, results, calls, auth, last,
                   json_text, reparsed, exit_status, stdout, collaborators, permuted>>

\* run_action lines 505-510
Complete ==
    /\ pc = "entries"
    /\ idx = Len(geodiff_obj.geodiff)
    /\ ret' = IF AllSuccess(results) THEN "true" ELSE "false"
    /\ pc' = "done"
    /\ UNCHANGED <<source, settings, geodiff_obj, idx, results, calls, set_failed, auth, last,
                   json_text, reparsed,
                   exit_status, stdout,
                   collaborators, permuted>>

Next == LoadReport \/ AuthenticateCli \/ ProcessNextEntry \/ Complete

Spec == Init /\ [][Next]_vars

\* process_all_entries called on a one-entry file after a successful
\* authentication, as the unit tests of process_entry and process_all_entries
\* do (no validation of the entry by the report model)
InitEntry ==
    /\ \E entry \in DirectEntries :
        /\ source = Source("no", NotJson, ValidReport(<<entry>>))
        /\ geodiff_obj = GeodiffFile(<<entry>>)
    /\ settings \in Settings
    /\ pc = "entries"
    /\ idx = 0
    /\ results = <<>>
    /\ calls = <<Tagged(CliCall(AuthArgs("pa")), 0)>>
    /\ set_failed = <<>>
    /\ auth = CliResult("none", 0)
    /\ last = NoOutcome
    /\ ret = "none"
    /\ json_text = NotJson
    /\ reparsed = NoReport
    /\ exit_status = "none"
    /\ stdout = <<>>
    /\ collaborators = NoCollaborators
    /\ permuted = NoRun

NextEntry == ProcessNextEntry \/ Complete

SpecEntry == InitEntry /\ [][NextEntry]_vars

-----------------------------------------------------------------------------
(* main: settings, run_action, exit *)

InitMain ==
    /\ source \in Sources
    /\ settings \in Settings
    /\ pc = "settings"
    /\ geodiff_obj = NoReport
    /\ idx = 0
    /\ results = <<>>
    /\ calls = <<>>
    /\ set_failed = <<>>
    /\ auth = NoResult
    /\ last = NoOutcome
    /\ ret = "none"
    /\ json_text = NotJson
    /\ reparsed = NoReport
    /\ exit_status = "none"
    /\ stdout = <<>>
    /\ collaborators = NoCollaborators
    /\ permuted = NoRun

\* main lines 551-558: AnncsuUpdateSettings() loads, or raises and main exits
LoadSettings ==
    /\ pc = "settings"
    /\ \E loaded \in BOOLEAN :
        IF loaded
        THEN /\ pc' = "load"
             /\ UNCHANGED <<set_failed, exit_status>>
        ELSE /\ pc' = "exited"
             /\ set_failed' = Append(set_failed, "Failed to load Anncsu Update Settings")
             /\ exit_status' = "SystemExit(1)"
    /\ UNCHANGED <<source, settings, geodiff_obj, idx, results, calls, auth, last, ret,
                   json_text, reparsed, stdout,
                   collaborators, permuted>>

\* main lines 564-579: run_action returned, or an exception left it and
\* leaves main as well
ExitMain ==
    /\ pc \in {"done", "raised"}
    /\ exit_status = "none"
    /\ IF pc = "raised"
       THEN /\ exit_status' = "raised"
            /\ UNCHANGED stdout
       ELSE IF ret = "true"
       THEN /\ exit_status' = "returned"
            /\ stdout' = Append(stdout, "Anncsu Update Action completed successfully")
       ELSE /\ exit_status' = "SystemExit(1)"
            /\ UNCHANGED stdout
    /\ UNCHANGED <<source, settings, pc, geodiff_obj, idx, results, calls, set_failed, auth,
                   last, ret, json_text, reparsed,
                   collaborators, permuted>>

NextMain ==
    LoadSettings \/ LoadReport \/ AuthenticateCli \/ ProcessNextEntry \/ Complete \/ ExitMain

SpecMain == InitMain /\ [][NextMain]_vars

-----------------------------------------------------------------------------
(* GeodiffFile.from_json_text and to_json applied in turn to a text *)

JsonColumns == {"0", "1", "7.0", "2.5"}

JsonOlds == {"", "null", "2", Quote("AAA=")}

JsonNews == {p[1] : p \in JsonScalars} \cup {"", "tru"}

JsonChanges == {JsonChange(c, o, n) : c \in JsonColumns, o \in JsonOlds, n \in JsonNews}

JsonEntries ==
    {JsonEntry("addresses", t, <<c>>) : t \in EntryTypes, c \in JsonChanges}
    \cup {JsonEntry("roads", "delete", <<>>),
          JsonEntry("addresses", "update",
                    <<JsonChange("1", Quote("AAA="), ""), JsonChange("0", "", "7")>>)}

\* the texts parsed: one entry each, and some with no entry, two entries,
\* other top-level keys, no "geodiff" key, or no JSON at all
JsonTexts ==
    {JsonText(TRUE, {"geodiff"}, <<e>>) : e \in JsonEntries}
    \cup {JsonText(TRUE, {"geodiff"}, <<>>),
          JsonText(TRUE, {"geodiff", "version"},
                   <<JsonEntry("addresses", "insert", <<JsonChange("0", "", "7")>>),
                     JsonEntry("roads", "delete", <<>>)>>),
          JsonText(TRUE, {"version"}, <<>>),
          JsonText(FALSE, {}, <<>>)}

InitRoundTrip ==
    /\ json_text \in JsonTexts
    /\ pc = "parse"
    /\ geodiff_obj = NoReport
    /\ reparsed = NoReport
    /\ source = Source("no", NotJson, NotJson)
    /\ settings \in {s \in Settings : s.coordinate_distance_threshold = 1}
    /\ idx = 0
    /\ results = <<>>
    /\ calls = <<>>
    /\ set_failed = <<>>
    /\ auth = NoResult
    /\ last = NoOutcome
    /\ ret = "none"
    /\ exit_status = "none"
    /\ stdout = <<>>
    /\ collaborators = NoCollaborators
    /\ permuted = NoRun

\* g = GeodiffFile.from_json_text(text)
ParseText ==
    /\ pc = "parse"
    /\ geodiff_obj' = from_json_text(json_text).file
    /\ pc' = IF from_json_text(json_text).exc = "none" THEN "parsed" ELSE "rejected"
    /\ UNCHANGED <<source, settings, idx, results, calls, set_failed, auth, last, ret,
                   json_text, reparsed,
                   exit_status, stdout,
                   collaborators, permuted>>

\* s = g.to_json()
Serialize ==
    /\ pc = "parsed"
    /\ json_text' = to_json(geodiff_obj)
    /\ pc' = "serialized"
    /\ UNCHANGED <<source, settings, geodiff_obj, idx, results, calls, set_failed, auth, last,
                   ret, reparsed,
                   exit_status, stdout,
                   collaborators, permuted>>

\* g2 = GeodiffFile.from_json_text(s)
ParseAgain ==
    /\ pc = "serialized"
    /\ reparsed' = from_json_text(json_text).file
    /\ pc' = IF from_json_text(json_text).exc = "none" THEN "reparsed" ELSE "rejected_again"
    /\ UNCHANGED <<source, settings, geodiff_obj, idx, results, calls, set_failed, auth, last,
                   ret, json_text,
                   exit_status, stdout,
                   collaborators, permuted>>

NextRoundTrip == ParseText \/ Serialize \/ ParseAgain

SpecRoundTrip == InitRoundTrip /\ [][NextRoundTrip]_vars

-----------------------------------------------------------------------------
(* process_all_entries on a report and on a permutation of it, the SDK and the
   CLI runner answering as functions of the arguments they receive *)

\* the entries of the permuted reports
PermutedEntries ==
    { GeodiffEntry("update", <<AddressOld(2), GeomUpdate("AAA=", "BBB="), RoadOld(9)>>),
      GeodiffEntry("insert", <<AddressOld(0), GeomOld("AAA=")>>),
      GeodiffEntry("delete", <<AddressOld(2), GeomOld("AAA="), RoadOld(9)>>),
      GeodiffEntry("update", <<AddressOld(2), RoadOld(9)>>),
      GeodiffEntry("update", <<Change(COLUMN_ADDRESS_ID, Null, StrV("abc")),
                               GeomUpdate("AAA=", "BBB=")>>) }

\* the orders in which a report of n entries can be rearranged
Orders(n) == {f \in [1..n -> 1..n] : \A i, j \in 1..n : f[i] = f[j] => i = j}

Permute(entries, order) == [i \in 1..Len(entries) |-> entries[order[i]]]

\* every argument list process_entry may pass to `target` on these entries
ArgumentsTo(target) ==
    UNION {{o.calls[i].args : i \in {j \in 1..Len(o.calls) : o.calls[j].target = target}} :
              o \in UNION {EntryOutcomes(e, cfg) : e \in PermutedEntries, cfg \in Settings}}

\* the answers of a registry that depends on the identifier only
SdkAnswers ==
    {Response("none", "OK", <<Record(None, None, "AAA=")>>),
     Response("none", "OK", <<Record(SomeFloat(1), SomeFloat(1), "AAA=")>>),
     Response("RuntimeError", "", <<>>)}

\* the answers of a CLI runner that depends on the argument list only
CliAnswers == {CliResult("none", 0), CliResult("none", 1)}

Collaborators == [sdk : [ArgumentsTo("sdk") -> SdkAnswers], cli : [ArgumentsTo("cli") -> CliAnswers]]

\* `with` gave process_entry the answers o was computed from, at the arguments
\* o passed (line 272 for the lookup, lines 299-315 for the invocation)
AnsweredBy(o, with) ==
    /\ o.response.called => o.response = with.sdk[o.calls[1].args]
    /\ o.result.called => o.result = with.cli[o.calls[2].args]

\* process_entry with its two calls answered by `with`
Answered(entry, cfg, with) ==
    CHOOSE o \in {process_entry(entry, cfg, response, result) :
                     response \in SdkAnswers, result \in CliAnswers} : AnsweredBy(o, with)

\* the loop of process_all_entries from entry n on (lines 356-368), and what
\* it does with the outcome o of entry n
RECURSIVE EntriesLoop(_, _, _, _, _), EntriesStep(_, _, _, _, _, _)
EntriesLoop(entries, n, cfg, with, acc) ==
    IF n > Len(entries) THEN acc
    ELSE EntriesStep(entries, n, cfg, with, acc, Answered(entries[n], cfg, with))

EntriesStep(entries, n, cfg, with, acc, o) ==
    IF o.kind = "raise"
    THEN [acc EXCEPT !.raised = TRUE, !.calls = @ \o TagAll(o.calls, n), !.last = o,
                     !.consumed = n]
    ELSE EntriesLoop(entries, n + 1, cfg, with,
                     [acc EXCEPT !.results = Append(@, EntryResult(entries[n].type, o.success)),
                                 !.calls = @ \o TagAll(o.calls, n), !.last = o,
                                 !.consumed = n])

\* process_all_entries: the list it returns, or the exception that leaves it
process_all_entries(entries, cfg, with) ==
    EntriesLoop(entries, 1, cfg, with,
                [raised |-> FALSE, results |-> <<>>, calls |-> <<>>, last |-> NoOutcome,
                 consumed |-> 0])

\* lines 505-510 of run_action on what process_all_entries did
Returned(run) ==
    IF run.raised THEN "raise" ELSE IF AllSuccess(run.results) THEN "true" ELSE "false"

InitPermuted ==
    /\ \E entries \in SeqsUpTo(PermutedEntries, MaxEntries) :
        /\ source = Source("no", NotJson, ValidReport(entries))
        /\ geodiff_obj = GeodiffFile(entries)
        /\ permuted \in {[NoRun EXCEPT !.order = f] : f \in Orders(Len(entries))}
    /\ collaborators \in Collaborators
    /\ settings \in {cfg \in Settings : cfg.coordinate_distance_threshold = 1}
    /\ pc = "entries"
    /\ idx = 0
    /\ results = <<>>
    /\ calls = <<Tagged(CliCall(AuthArgs("pa")), 0)>>
    /\ set_failed = <<>>
    /\ auth = CliResult("none", 0)
    /\ last = NoOutcome
    /\ ret = "none"
    /\ json_text = NotJson
    /\ reparsed = NoReport
    /\ exit_status = "none"
    /\ stdout = <<>>

\* run_action from line 494 on, on the report as it is
RunReport ==
    /\ pc = "entries"
    /\ \E run \in {process_all_entries(geodiff_obj.geodiff, settings, collaborators)} :
           /\ results' = run.results
           /\ calls' = calls \o run.calls
           /\ idx' = run.consumed
           /\ last' = run.last
           /\ ret' = Returned(run)
           /\ pc' = IF run.raised THEN "raised" ELSE "done"
    /\ UNCHANGED <<source, settings, geodiff_obj, set_failed, auth, json_text, reparsed,
                   exit_status, stdout, collaborators, permuted>>

\* the same on the report rearranged by permuted.order
RunPermuted ==
    /\ pc \in {"done", "raised"}
    /\ ~permuted.ran
    /\ \E run \in {process_all_entries(Permute(geodiff_obj.geodiff, permuted.order), settings,
                                        collaborators)} :
           permuted' = [permuted EXCEPT !.ran = TRUE, !.ret = Returned(run),
                                        !.results = run.results, !.calls = run.calls]
    /\ UNCHANGED <<source, settings, pc, geodiff_obj, idx, results, calls, set_failed, auth,
                   last, ret, json_text, reparsed, exit_status, stdout, collaborators>>

NextPermuted == RunReport \/ RunPermuted

SpecPermuted == InitPermuted /\ [][NextPermuted]_vars

-----------------------------------------------------------------------------
(* Vocabulary of the properties *)

\* process_entry has run at least once; `last` is what it did on entry idx
Processed == idx > 0

LastEntry == geodiff_obj.geodiff[idx]

LastData == extract_entry_data(LastEntry)

Lookups(cs) == SelectSeq(cs, LAMBDA c : c.target = "sdk")

Commands(cs) == SelectSeq(cs, LAMBDA c : c.target = "cli")

UpdateCommands(cs) == SelectSeq(cs, LAMBDA c : c.target = "cli" /\ c.args[1] = "coordinate")

\* run_action is over: it returned or an exception left it
Terminated == pc \in {"done", "raised"}

\* the report loaded and authenticate_cli returned True
Authenticated == geodiff_obj.some /\ auth.called /\ auth.exc = "none" /\ auth.exit_code = 0

\* the latest entry is an update, or an insert with identifier >= 0, whose
\* identifier is present and whose geometry decoded to a Point
ReconcilableEntry ==
    /\ Processed
    /\ LastEntry.type \in {"update", "insert"}
    /\ LastData.exc = "none"
    /\ LastData.address_id.some
    /\ (LastEntry.type = "insert" => LastData.address_id.i >= 0)
    /\ last.coords.some

\* the lookup of the latest entry answered OK with exactly one record, both
\* stored axes present
SingleRecordWithCoordinates ==
    /\ last.response.called
    /\ last.response.exc = "none"
    /\ last.response.res = "OK"
    /\ Len(last.response.data) = 1
    /\ last.response.data[1].coord_x.some
    /\ last.response.data[1].coord_y.some

\* the executor, if the latest entry invoked it, returned exit status 0
ExecutorReturnsZero ==
    last.result.called => (last.result.exc = "none" /\ last.result.exit_code = 0)

StoredX == last.response.data[1].coord_x.i

StoredY == last.response.data[1].coord_y.i

-----------------------------------------------------------------------------
(* C1 *)

\* C1: for an update entry (or insert with identifier >= 0) with an identifier
\* and a geometry decoding to a Point (x, y), when the lookup answers OK with
\* one record whose stored coordinate differs from (x, y) by at least the
\* threshold on some axis and the executor returns 0, process_entry invokes
\* the coordinate update exactly once and succeeds.
C1_DriftedCoordinateIsUpdated ==
    ( /\ ReconcilableEntry
      /\ SingleRecordWithCoordinates
      /\ \/ Abs(StoredX - last.coords.x) >= settings.coordinate_distance_threshold
         \/ Abs(StoredY - last.coords.y) >= settings.coordinate_distance_threshold
      /\ ExecutorReturnsZero )
    => ( /\ Len(UpdateCommands(last.calls)) = 1
         /\ last.kind = "return"
         /\ last.success )

(* C2 *)

\* C2: for an update entry (or insert with identifier >= 0) whose geometry
\* decodes to exactly the stored coordinate of the single record of an OK
\* lookup, process_entry invokes the executor zero times and succeeds.
C2_EqualCoordinateIsNoOp ==
    ( /\ ReconcilableEntry
      /\ SingleRecordWithCoordinates
      /\ StoredX = last.coords.x
      /\ StoredY = last.coords.y )
    => ( /\ Len(Commands(last.calls)) = 0
         /\ last.kind = "return"
         /\ last.success )

(* C3 *)

\* C3: run_action terminates by returning a boolean; no error escapes it.
C3_NoErrorEscapes == ret # "raise" /\ pc # "raised"

(* C4 *)

\* C4: once the report has loaded and authentication has succeeded, every entry
\* of the report is attempted exactly once, whatever way an earlier entry fails:
\* when run_action is over, process_entry has been called on all entries.
C4_AllEntriesAttempted ==
    (Terminated /\ Authenticated) => idx = Len(geodiff_obj.geodiff)

(* C5 *)

\* C5: when the report loads and authentication succeeds, run_action returns
\* true exactly when every entry has a successful outcome; with an empty entry
\* list it returns true after zero lookups and zero coordinate updates.
C5_ReturnIsConjunction ==
    (Terminated /\ Authenticated)
    => ( /\ (ret = "true") <=>
              ( /\ Len(results) = Len(geodiff_obj.geodiff)
                /\ \A k \in 1..Len(results) : results[k].success )
         /\ Len(geodiff_obj.geodiff) = 0
              => ( /\ ret = "true"
                   /\ Len(Lookups(calls)) = 0
                   /\ Len(UpdateCommands(calls)) = 0 ) )

\* a run of two entries, the first succeeding and the second failing, that
\* returned false
C5_Witness ==
    /\ pc = "done"
    /\ Authenticated
    /\ Len(results) = 2
    /\ results[1].success
    /\ ~results[2].success
    /\ ret = "false"

(* C6 *)

\* the text the loader ends up parsing is not a valid report
Unloadable ==
    /\ (source.exists # "yes" \/ source.file.kind \in {"notjson", "badschema", "unreadable"})
    /\ source.text.kind \in {"notjson", "badschema"}

\* C6: if the report source cannot be loaded, run_action returns false after
\* set_failed, and the executor is never invoked, the registry never queried
\* and no entry processed.
C6_LoadFailureIsFatal ==
    (Unloadable /\ pc # "load")
    => ( /\ pc = "done"
         /\ ret = "false"
         /\ Len(set_failed) = 1
         /\ calls = <<>>
         /\ ~auth.called
         /\ idx = 0
         /\ results = <<>> )

\* a run on a text that is valid JSON violating the schema, after the load
C6_Witness ==
    /\ source.exists = "no"
    /\ source.text.kind = "badschema"
    /\ pc = "done"
    /\ ret = "false"

(* C7 *)

\* C7: if authentication fails (non-zero exit status, or the executor raises),
\* run_action returns false after set_failed, and no entry is processed: zero
\* lookups and zero coordinate updates.
C7_AuthFailureIsFatal ==
    (auth.called /\ (auth.exc # "none" \/ auth.exit_code # 0))
    => ( /\ pc = "done"
         /\ ret = "false"
         /\ Len(set_failed) = 1
         /\ idx = 0
         /\ results = <<>>
         /\ Len(Lookups(calls)) = 0
         /\ Len(UpdateCommands(calls)) = 0 )

\* a run on a non-empty report whose authentication returned a non-zero status
C7_Witness ==
    /\ auth.called
    /\ auth.exc = "none"
    /\ auth.exit_code # 0
    /\ Len(geodiff_obj.geodiff) > 0
    /\ pc = "done"

(* C8 *)

\* C8: for every entry whose extracted identifier is absent, process_entry
\* yields a failed outcome and makes no lookup and no command invocation.
C8_MissingIdentifierFails ==
    (Processed /\ LastData.exc = "none" /\ ~LastData.address_id.some)
    => ( /\ last.kind = "return"
         /\ ~last.success
         /\ Len(results) = idx
         /\ ~results[idx].success
         /\ last.calls = <<>> )

\* a delete entry without identifier has been processed
C8_Witness ==
    /\ Processed
    /\ LastData.exc = "none"
    /\ ~LastData.address_id.some
    /\ LastEntry.type = "delete"
    /\ last.reason = "no_address_id"

(* C9 *)

\* C9: for every entry that has an identifier but no encoded geometry (no
\* column 1 change, or one resolving to an absent value), process_entry yields
\* a failed outcome with the "no geometry" reason and makes no lookup and no
\* command invocation.
C9_MissingGeometryFails ==
    ( /\ Processed
      /\ LastData.exc = "none"
      /\ LastData.address_id.some
      /\ ~LastData.gpkg_geom.some )
    => ( /\ last.kind = "return"
         /\ ~last.success
         /\ last.reason = "no_geometry"
         /\ Len(results) = idx
         /\ ~results[idx].success
         /\ last.calls = <<>> )

\* an update entry with a column 1 change resolving to None has been processed
C9_Witness ==
    /\ Processed
    /\ LastEntry.type = "update"
    /\ \E k \in 1..Len(LastEntry.changes) : LastEntry.changes[k].column = COLUMN_GEOMETRY
    /\ LastData.address_id.some
    /\ ~LastData.gpkg_geom.some
    /\ ~last.success

(* C10 *)

\* the geometry of the latest entry fails to decode: invalid base64, an
\* invalid geometry, or a geometry that is not a Point
OwnGeometryUndecodable ==
    /\ Processed
    /\ LastData.exc = "none"
    /\ LastData.address_id.some
    /\ LastData.gpkg_geom.some
    /\ LastData.gpkg_geom.s # ""
    /\ \/ b64decode(LastData.gpkg_geom.s).exc # "none"
       \/ /\ GeometryDecoder(LastData.gpkg_geom.s).exc = "none"
          /\ Len(GeometryDecoder(LastData.gpkg_geom.s).geoms) > 0
          /\ \/ ~GeometryDecoder(LastData.gpkg_geom.s).geoms[1].is_valid
             \/ GeometryDecoder(LastData.gpkg_geom.s).geoms[1].geom_type # "Point"

\* C10: for every entry with an identifier whose own geometry fails to decode,
\* process_entry yields a failed outcome, makes no lookup and no command
\* invocation, and the run continues with the next entry.
C10_UndecodableGeometryFails ==
    OwnGeometryUndecodable
    => ( /\ last.kind = "return"
         /\ ~last.success
         /\ last.calls = <<>>
         /\ Len(results) = idx
         /\ ~results[idx].success
         /\ pc \in {"entries", "done"} )

\* an entry whose geometry is not a Point failed and another entry follows
C10_Witness ==
    /\ OwnGeometryUndecodable
    /\ LastData.gpkg_geom.s = "DDD="
    /\ pc = "entries"
    /\ idx < Len(geodiff_obj.geodiff)
    /\ ~last.success

(* C11 *)

\* the latest entry has an identifier and its own geometry is either absent
\* (None or the empty string) or decodes to a Point
OwnGeometryAbsentOrDecoded ==
    /\ Processed
    /\ LastData.exc = "none"
    /\ LastData.address_id.some
    /\ \/ ~LastData.gpkg_geom.some
       \/ LastData.gpkg_geom.s = ""
       \/ parse_gpkg_to_coordinates(LastData.gpkg_geom.s).exc = "none"

\* C11: for every delete entry whose identifier is present, process_entry
\* reports success whether an encoded geometry is present in the entry or not.
C11_DeleteAlwaysSucceeds ==
    (OwnGeometryAbsentOrDecoded /\ LastEntry.type = "delete")
    => (last.kind = "return" /\ last.success)

(* C12 *)

\* C12: for every insert entry whose identifier is negative, process_entry
\* yields a failed outcome and makes no lookup and no command invocation.
C12_NegativeInsertFails ==
    ( /\ Processed
      /\ LastEntry.type = "insert"
      /\ LastData.exc = "none"
      /\ LastData.address_id.some
      /\ LastData.address_id.i < 0 )
    => ( /\ last.kind = "return"
         /\ ~last.success
         /\ Len(Lookups(last.calls)) = 0
         /\ Len(Commands(last.calls)) = 0 )

(* C13 *)

\* the lookup of the latest entry returned a response (it did not raise)
LookupAnswered == Processed /\ last.response.called /\ last.response.exc = "none"

\* C13: for every update/insert entry that reaches the lookup, a non-OK status,
\* zero records, or two or more records make the outcome a failure without any
\* command; a coordinate update is invoked only after a lookup that answered OK
\* with exactly one record.
C13_UpdateOnlyAfterSingleRecord ==
    /\ ( /\ LookupAnswered
         /\ \/ last.response.res # "OK"
            \/ Len(last.response.data) = 0
            \/ Len(last.response.data) >= 2 )
       => ( /\ LastEntry.type \in {"update", "insert"}
            /\ last.kind = "return"
            /\ ~last.success
            /\ Len(results) = idx
            /\ ~results[idx].success
            /\ Len(Commands(last.calls)) = 0 )
    /\ (Processed /\ Len(Commands(last.calls)) > 0)
       => ( /\ LookupAnswered
            /\ last.response.res = "OK"
            /\ Len(last.response.data) = 1
            /\ Len(Lookups(last.calls)) = 1 )

\* an insert entry whose lookup answered a non-OK status together with one
\* record failed without a command
C13_Witness ==
    /\ LookupAnswered
    /\ LastEntry.type = "insert"
    /\ last.response.res = "KO"
    /\ Len(last.response.data) = 1
    /\ ~last.success
    /\ Len(Commands(last.calls)) = 0

(* C14 *)

\* the distance of two coordinates on one axis, whichever is the larger
Distance(a, b) == IF a >= b THEN a - b ELSE b - a

\* the coordinate decoded from the dug field of the single record
DecodedDug == parse_gpkg_to_coordinates(last.response.data[1].dug)

\* the update of the latest entry was skipped: success without any command
Skipped ==
    /\ last.kind = "return"
    /\ last.success
    /\ Len(Commands(last.calls)) = 0

SingleRecordLackingCoordinate ==
    /\ LookupAnswered
    /\ last.response.res = "OK"
    /\ Len(last.response.data) = 1
    /\ \/ ~last.response.data[1].coord_x.some
       \/ ~last.response.data[1].coord_y.some

\* C15: when the single record lacks a stored coordinate on either axis,
\* process_entry neither compares nor decodes the record's geometry (so an
\* undecodable one is harmless) and invokes the coordinate update exactly once.
C15_NoStoredCoordinateUpdates ==
    SingleRecordLackingCoordinate
    => ( /\ last.reason \in {"updated", "cli_failed", "cli_raised"}
         /\ last.result.called
         /\ Len(UpdateCommands(last.calls)) = 1
         /\ Len(Commands(last.calls)) = 1
         /\ (last.kind = "raise" => last.exc = last.result.exc) )

\* a record with x stored, y absent and an undecodable geometry led to one
\* successful update
C15_Witness ==
    /\ SingleRecordLackingCoordinate
    /\ last.response.data[1].coord_x.some
    /\ ~last.response.data[1].coord_y.some
    /\ DecodedDug.exc # "none"
    /\ Len(UpdateCommands(last.calls)) = 1
    /\ last.success

(* C16 *)

\* the executor was invoked for the latest entry and returned an exit status
CommandReturned == Processed /\ last.result.called /\ last.result.exc = "none"

\* C16: whenever the coordinate update is invoked for an entry and returns,
\* the entry's outcome is success exactly when the exit status is 0.
C16_SuccessIffExitZero ==
    CommandReturned
    => ( /\ Len(UpdateCommands(last.calls)) = 1
         /\ last.kind = "return"
         /\ last.success <=> (last.result.exit_code = 0)
         /\ Len(results) = idx
         /\ results[idx].success <=> (last.result.exit_code = 0) )

\* an update whose command returned exit status 2 has a failed outcome
C16_Witness ==
    /\ CommandReturned
    /\ last.result.exit_code = 2
    /\ LastEntry.type = "update"
    /\ ~results[idx].success

(* C17 *)

\* the coordinate decoded from the latest entry's own resolved geometry
OwnCoordinates == parse_gpkg_to_coordinates(LastData.gpkg_geom.s)

\* C17: every coordinate update carries, as strings, the configured
\* municipality code, the entry's identifier, the x and y decoded from the
\* entry's own geometry and the method code "4", for every identifier reaching
\* the update, 0 included.
C17_UpdateArgumentsAreTheEntrys ==
    Processed
    => \A k \in 1..Len(UpdateCommands(last.calls)) :
          UpdateCommands(last.calls)[k].args =
              <<"coordinate", "update",
                "--codcom", settings.codice_comune,
                "--progr-civico", IntStr(LastData.address_id.i),
                "--x", FloatStr(OwnCoordinates.x),
                "--y", FloatStr(OwnCoordinates.y),
                "--metodo", "4">>

(* C18 *)

\* the value the claimed precedence resolves a change to: `new` when it is
\* present (not null), `old` otherwise
NewElseOld(change) == IF change.new # Null THEN change.new ELSE change.old

\* the changes of the latest entry at `column`, the last of which decides
ChangesAt(column) ==
    {k \in 1..Len(LastEntry.changes) : LastEntry.changes[k].column = column}

DecidingChange(column) ==
    LastEntry.changes[CHOOSE k \in ChangesAt(column) : \A j \in ChangesAt(column) : j <= k]

\* C18: for every change at column 0, 1 or 2, extract_entry_data resolves the
\* field to `new` whenever `new` is not null (0, "" and false included), and to
\* `old` only when `new` is null.
C18_NewTakesPrecedence ==
    (Processed /\ LastData.exc = "none")
    => ( /\ ChangesAt(COLUMN_ADDRESS_ID) # {}
            => LastData.address_id =
                 IF NewElseOld(DecidingChange(COLUMN_ADDRESS_ID)) = Null THEN None
                 ELSE SomeInt(PyInt(NewElseOld(DecidingChange(COLUMN_ADDRESS_ID))).v)
         /\ ChangesAt(COLUMN_GEOMETRY) # {}
            => LastData.gpkg_geom =
                 IF NewElseOld(DecidingChange(COLUMN_GEOMETRY)) = Null THEN None
                 ELSE SomeStr(PyStr(NewElseOld(DecidingChange(COLUMN_GEOMETRY))))
         /\ ChangesAt(COLUMN_ROAD_ID) # {}
            => LastData.road_id =
                 IF NewElseOld(DecidingChange(COLUMN_ROAD_ID)) = Null THEN None
                 ELSE SomeInt(PyInt(NewElseOld(DecidingChange(COLUMN_ROAD_ID))).v) )

(* C19 *)

\* C19: when the source denotes an existing file, the result of
\* load_geodiff_report is what reading and parsing that file gives, and None if
\* that fails, without falling back to the source string as report text; a
\* source that does not exist as a path is parsed as literal text.
C19_ExistingFileIsAuthoritative ==
    pc # "load"
    => ( /\ source.exists = "yes"
            => geodiff_obj = IF from_path(source.file).exc = "none"
                             THEN from_path(source.file).file
                             ELSE NoReport
         /\ source.exists = "no"
            => geodiff_obj = from_json_text(source.text).file )

(* C20 *)

\* C20: for every text that GeodiffFile.from_json_text parses, parsing the
\* output of to_json succeeds and yields a report equal to the first one: same
\* entries in the same order, same table, type, and column/old/new per change.
C20_RoundTrip ==
    pc \in {"reparsed", "rejected_again"}
    => ( /\ pc = "reparsed"
         /\ reparsed = geodiff_obj )

(* C21 *)

\* from_json_text has just been applied to the input text
FirstParseDone == pc \in {"parsed", "rejected"}

\* some entry of the input text has a type other than insert, update, delete
SomeBadType ==
    \E e \in 1..Len(json_text.geodiff) :
        json_text.geodiff[e].type \notin {"insert", "update", "delete"}

\* the input text is JSON whose "geodiff" array is a valid list of entries
ValidGeodiffArray ==
    /\ json_text.wellformed
    /\ "geodiff" \in json_text.keys
    /\ ~SomeBadType
    /\ \A e \in 1..Len(json_text.geodiff) : \A c \in 1..Len(json_text.geodiff[e].changes) :
          /\ Loadable(json_text.geodiff[e].changes[c].old)
          /\ Loadable(json_text.geodiff[e].changes[c].new)
          /\ json_text.geodiff[e].changes[c].column \in {"0", "1", "7.0"}

\* C21: GeodiffFile.from_json_text fails for a text that is not JSON, for JSON
\* without the top-level "geodiff" key and for an entry whose type is not one
\* of insert/update/delete; it succeeds, ignoring them, when other top-level
\* keys accompany a valid "geodiff" array.
C21_ParseRejectsAndTolerates ==
    FirstParseDone
    => ( /\ ~json_text.wellformed => (pc = "rejected" /\ ~geodiff_obj.some)
         /\ "geodiff" \notin json_text.keys => (pc = "rejected" /\ ~geodiff_obj.some)
         /\ SomeBadType => (pc = "rejected" /\ ~geodiff_obj.some)
         /\ ValidGeodiffArray
            => ( /\ pc = "parsed"
                 /\ geodiff_obj.some
                 /\ Len(geodiff_obj.geodiff) = Len(json_text.geodiff)
                 /\ geodiff_obj =
                      from_json_text([json_text EXCEPT !.keys = {"geodiff"}]).file ) )

\* a text with another top-level key beside a two-entry "geodiff" array parsed
C21_Witness ==
    /\ pc = "parsed"
    /\ "version" \in json_text.keys
    /\ ValidGeodiffArray
    /\ Len(geodiff_obj.geodiff) = 2

(* C22 *)

\* C22: in the list process_all_entries returns, every failed entry has an
\* error_message (a reason) and every successful entry has none.
C22_FailedOutcomeCarriesReason ==
    \A k \in 1..Len(results) :
        results[k].success <=> ~results[k].error_message.some

(* C23 *)

\* C23: extract_entry_data has no failure mode: for every entry whose change
\* values are integers, floats, strings, booleans or null it returns the
\* triple (identifier, secondary reference, geometry) and never raises.
C23_ExtractorNeverRaises ==
    Processed
    => ( /\ LastData.exc = "none"
         /\ last.reason # "extract_error" )

(* C24 *)

\* the latest entry with insert and update exchanged
Twin == [LastEntry EXCEPT !.type = IF LastEntry.type = "insert" THEN "update" ELSE "insert"]

\* the latest entry is an insert or an update with an identifier >= 0
InsertOrUpdateAtKnownIdentifier ==
    /\ Processed
    /\ LastEntry.type \in {"insert", "update"}
    /\ LastData.exc = "none"
    /\ LastData.address_id.some
    /\ LastData.address_id.i >= 0

C25_UnknownActionFails ==
    ( /\ OwnGeometryAbsentOrDecoded
      /\ LastData.gpkg_geom.some
      /\ LastData.gpkg_geom.s # ""
      /\ LastEntry.type \notin {"insert", "update", "delete"} )
    => ( /\ last.kind = "return"
         /\ ~last.success
         /\ last.reason = "unknown_action"
         /\ Len(results) = idx
         /\ ~results[idx].success
         /\ last.calls = <<>> )

\* a merge entry with an identifier and a Point geometry has been processed
C25_Witness ==
    /\ Processed
    /\ LastEntry.type = "merge"
    /\ LastData.address_id.some
    /\ last.coords.some
    /\ ~last.success

(* C26 *)

\* main is over: it returned, raised SystemExit(1), or an exception left it
MainOver == exit_status # "none"

\* C26: main exits with status 1 exactly when the settings fail to load or
\* run_action returns false, and otherwise returns normally after printing the
\* completion confirmation; when an entry fails, the non-zero exit comes only
\* at the end, after every entry has been attempted.
C26_ExitStatusReflectsRun ==
    MainOver
    => ( /\ (exit_status = "SystemExit(1)") <=> (pc = "exited" \/ ret = "false")
         /\ exit_status # "SystemExit(1)"
            => ( /\ exit_status = "returned"
                 /\ stdout = <<"Anncsu Update Action completed successfully">> )
         /\ (Authenticated /\ exit_status # "returned")
            => idx = Len(geodiff_obj.geodiff) )

(* C27 *)

\* C27: in every run whose report loads, the executor receives exactly one
\* authentication invocation ("auth login --api <api_type>"), it is the first
\* invocation of the run, every later invocation is a coordinate update, and
\* no coordinate update is invoked before a successful authentication.
C27_AuthenticationComesFirst ==
    /\ (geodiff_obj.some /\ pc \notin {"load", "auth"})
       => ( /\ Len(Commands(calls)) >= 1
            /\ Commands(calls)[1].args = <<"auth", "login", "--api", "pa">>
            /\ \A k \in 2..Len(Commands(calls)) :
                  /\ Commands(calls)[k].args[1] = "coordinate"
                  /\ Commands(calls)[k].args[2] = "update" )
    /\ pc \in {"load", "auth"} => Commands(calls) = <<>>
    /\ Len(UpdateCommands(calls)) > 0 => Authenticated

\* a run that invoked the authentication and then two coordinate updates
C27_Witness ==
    /\ pc = "done"
    /\ Authenticated
    /\ Len(Commands(calls)) = 3
    /\ Len(UpdateCommands(calls)) = 2

(* C28 *)

\* the lookup of the latest entry answered OK with exactly one record
SingleRecord ==
    /\ LookupAnswered
    /\ last.response.res = "OK"
    /\ Len(last.response.data) = 1

PointPayloads == {g \in ValidBase64 : parse_gpkg_to_coordinates(g).exc = "none"}

\* `entry` with the new value of its geometry changes replaced by `g`
WithGeometry(entry, g) ==
    [entry EXCEPT !.changes =
        [k \in 1..Len(entry.changes) |->
            IF entry.changes[k].column = COLUMN_GEOMETRY
            THEN [entry.changes[k] EXCEPT !.new = StrV(g)]
            ELSE entry.changes[k]]]

\* the latest entry is an update with an identifier and a Point geometry
UpdateWithPoint ==
    /\ Processed
    /\ LastEntry.type = "update"
    /\ LastData.exc = "none"
    /\ LastData.address_id.some
    /\ LastData.gpkg_geom.some
    /\ LastData.gpkg_geom.s \in PointPayloads

CallsFor(target, n) == SelectSeq(calls, LAMBDA c : c.target = target /\ c.entry = n)

\* C30: no retries: each entry causes at most one lookup and at most one
\* coordinate update, so the executor is invoked at most 1 + the number of
\* entries times, and a failed lookup or a non-zero exit is never followed by
\* a second attempt for the same entry.
C30_NoRetries ==
    /\ \A n \in 1..Len(geodiff_obj.geodiff) :
          /\ Len(CallsFor("sdk", n)) <= 1
          /\ Len(CallsFor("cli", n)) <= 1
          /\ n > idx => (CallsFor("sdk", n) = <<>> /\ CallsFor("cli", n) = <<>>)
    /\ Len(Commands(calls)) <= 1 + Len(geodiff_obj.geodiff)
    /\ Len(Lookups(calls)) <= Len(geodiff_obj.geodiff)
    /\ (Processed /\ ~last.success)
       => (Len(Lookups(last.calls)) <= 1 /\ Len(Commands(last.calls)) <= 1)

\* a run of two entries: the command of the first returned a non-zero exit,
\* the lookup of the second failed; each was attempted once
C30_Witness ==
    /\ pc = "done"
    /\ Len(results) = 2
    /\ ~results[1].success
    /\ Len(CallsFor("cli", 1)) = 1
    /\ last.reason = "query_failed"
    /\ Len(CallsFor("sdk", 2)) = 1
    /\ Len(CallsFor("cli", 2)) = 0

(* C31 *)

\* the calls of the run made for the entries (the authentication left out)
EntryCalls == SelectSeq(calls, LAMBDA c : c.entry > 0)

\* the identifier process_entry reads from entry number n, as the lookup
\* receives it
PrognazOf(n) == IntStr(extract_entry_data(geodiff_obj.geodiff[n]).address_id.i)

\* C31: entries are processed strictly sequentially in report order: every
\* call made for entry i comes before any call made for entry i+1, each call
\* belongs to an entry already reached and each lookup carries that entry's
\* identifier; within an entry the registry lookup precedes the coordinate
\* update.
C31_SequentialInReportOrder ==
    /\ \A i, j \in 1..Len(calls) : i < j => calls[i].entry <= calls[j].entry
    /\ \A j \in 1..Len(calls) :
          calls[j].entry > 0 =>
            /\ calls[j].entry <= idx
            /\ calls[j].target = "sdk" => calls[j].args = <<PrognazOf(calls[j].entry)>>
            /\ calls[j].target = "cli" =>
                  \E i \in 1..(j - 1) : /\ calls[i].target = "sdk"
                                         /\ calls[i].entry = calls[j].entry

\* a run of two entries with different identifiers, each of which caused a
\* lookup and then a coordinate update
C31_Witness ==
    /\ pc = "done"
    /\ Len(geodiff_obj.geodiff) = 2
    /\ PrognazOf(1) # PrognazOf(2)
    /\ Len(EntryCalls) = 4
    /\ EntryCalls[1].target = "sdk" /\ EntryCalls[1].entry = 1
    /\ EntryCalls[2].target = "cli" /\ EntryCalls[2].entry = 1
    /\ EntryCalls[3].target = "sdk" /\ EntryCalls[3].entry = 2
    /\ EntryCalls[4].target = "cli" /\ EntryCalls[4].entry = 2

(* C32 *)

\* process_all_entries has returned: its loop went through the whole report
\* and no exception left it
AllEntriesReturned ==
    /\ Authenticated
    /\ \/ pc = "done"
       \/ pc = "entries" /\ idx = Len(geodiff_obj.geodiff)

\* C32: when process_all_entries returns, the outcome list has exactly one
\* outcome per report entry, in report order, and the i-th outcome's entry
\* kind is the kind of the i-th entry.
C32_OneOutcomePerEntryInOrder ==
    AllEntriesReturned =>
        /\ Len(results) = Len(geodiff_obj.geodiff)
        /\ \A i \in 1..Len(results) : results[i].entry_type = geodiff_obj.geodiff[i].type

\* process_all_entries returned on a report of a delete followed by an insert
C32_Witness ==
    /\ AllEntriesReturned
    /\ Len(geodiff_obj.geodiff) = 2
    /\ geodiff_obj.geodiff[1].type = "delete"
    /\ geodiff_obj.geodiff[2].type = "insert"
    /\ Len(results) = 2
    /\ results[1].entry_type = "delete"
    /\ results[2].entry_type = "insert"

(* C33 *)

\* a call without the position of the entry it was made for
Untagged(c) == [target |-> c.target, args |-> c.args]

Occurrences(c, cs) == Cardinality({i \in 1..Len(cs) : Untagged(cs[i]) = c})

\* the two logs hold the same calls the same number of times
SameMultiset(cs, ds) ==
    \A c \in {Untagged(cs[i]) : i \in 1..Len(cs)} \cup {Untagged(ds[i]) : i \in 1..Len(ds)} :
        Occurrences(c, cs) = Occurrences(c, ds)

\* the report and its permutation have both been run
BothRan == pc \in {"done", "raised"} /\ permuted.ran

\* C33: with collaborators whose responses depend only on their arguments,
\* permuting the entries of a report permutes the outcome list the same way
\* and leaves the overall result and the multiset of lookups and commands
\* unchanged.
C33_PermutationInvariant ==
    BothRan =>
        /\ permuted.ret = ret
        /\ ret # "raise" =>
              /\ Len(permuted.results) = Len(results)
              /\ \A i \in 1..Len(results) : permuted.results[i] = results[permuted.order[i]]
        /\ SameMultiset(EntryCalls, permuted.calls)

(* C34 *)

\* the columns extract_entry_data reads
KnownColumns == {COLUMN_ADDRESS_ID, COLUMN_GEOMETRY, COLUMN_ROAD_ID}

\* the entry without its changes at other columns
WithoutOtherColumns(entry) ==
    [entry EXCEPT !.changes = SelectSeq(@, LAMBDA c : c.column \in KnownColumns)]

\* the entry reduced to one change
WithOnly(entry, change) == [entry EXCEPT !.changes = <<change>>]

\* C34: extract_entry_data is last-wins per column and ignores every column
\* other than 0, 1 and 2: when it returns, each field is the one resolved from
\* the last change at its column, and the result is the one of the entry
\* without its changes at other columns, however many they are and wherever
\* they stand.
C34_LastWinsAndOthersIgnored ==
    Processed =>
        /\ LastData = extract_entry_data(WithoutOtherColumns(LastEntry))
        /\ LastData.exc = "none" =>
              /\ ChangesAt(COLUMN_ADDRESS_ID) # {} =>
                    LastData.address_id =
                      extract_entry_data(WithOnly(LastEntry,
                                                  DecidingChange(COLUMN_ADDRESS_ID))).address_id
              /\ ChangesAt(COLUMN_GEOMETRY) # {} =>
                    LastData.gpkg_geom =
                      extract_entry_data(WithOnly(LastEntry,
                                                  DecidingChange(COLUMN_GEOMETRY))).gpkg_geom
              /\ ChangesAt(COLUMN_ROAD_ID) # {} =>
                    LastData.road_id =
                      extract_entry_data(WithOnly(LastEntry,
                                                  DecidingChange(COLUMN_ROAD_ID))).road_id

\* process_entry ran on an entry with two changes at column 0 (5, then 2), two
\* at column 1 and two at other columns: it looked up identifier 2 and decoded
\* the second geometry
C34_Witness ==
    /\ Processed
    /\ Cardinality(ChangesAt(COLUMN_ADDRESS_ID)) = 2
    /\ Cardinality(ChangesAt(COLUMN_GEOMETRY)) = 2
    /\ Len(LastEntry.changes) = 6
    /\ LastData.address_id = SomeInt(2)
    /\ LastData.gpkg_geom = SomeStr("AAA=")
    /\ last.coords = Coordinates(1, 1)
    /\ Len(last.calls) > 0
    /\ last.calls[1].args = <<"2">>

(* C35 *)

\* process_entry handed the latest entry's geometry to the resolver (line 247)
OwnGeometryResolved ==
    /\ Processed
    /\ LastData.exc = "none"
    /\ LastData.address_id.some
    /\ GeometryPresent(LastData)

\* what the resolver made of it
Resolved == parse_gpkg_to_coordinates(LastData.gpkg_geom.s)

\* the handle the decoder yields for it, when it is well-formed base64 and
\* the decoder yields one
HasHandle ==
    /\ LastData.gpkg_geom.s \in ValidBase64
    /\ GeometryDecoder(LastData.gpkg_geom.s).exc = "none"
    /\ Len(GeometryDecoder(LastData.gpkg_geom.s).geoms) > 0

Handle == GeometryDecoder(LastData.gpkg_geom.s).geoms[1]

\* C35: the geometry resolver checks validity before type and returns the
\* first coordinate pair: a handle with is_valid = false fails as invalid
\* geometry whatever its type, a valid handle whose type is not "Point" fails
\* reporting the actual type, a valid Point yields (x, y) equal to the first
\* element of its coordinate list, and invalid base64 fails with an encoding
\* error that leaves the resolver.
C35_ResolverChecksAndFails ==
    OwnGeometryResolved =>
        /\ LastData.gpkg_geom.s \notin ValidBase64 =>
              /\ Resolved.exc = "ValueError"
              /\ Resolved.msg = "binascii.Error"
        /\ HasHandle =>
              /\ ~Handle.is_valid =>
                    (Resolved.exc = "ValueError" /\ Resolved.msg = "Invalid geometry")
              /\ (Handle.is_valid /\ Handle.geom_type # "Point") =>
                    /\ Resolved.exc = "ValueError"
                    /\ Resolved.msg = "Geometry is not a Point, got: " \o Handle.geom_type
              /\ (Handle.is_valid /\ Handle.geom_type = "Point") =>
                    /\ Resolved.exc = "none"
                    /\ <<Resolved.x, Resolved.y>> = Handle.coords[1]

(* C36 *)

\* the report loaded and all its entries are deletes
OnlyDeletes ==
    /\ geodiff_obj.some
    /\ \A i \in 1..Len(geodiff_obj.geodiff) : geodiff_obj.geodiff[i].type = "delete"

\* C36: no delete entry ever causes a registry lookup or a command
\* invocation, whatever its fields and its outcome; in a run whose report
\* contains only delete entries the only executor invocation is the
\* authentication.
C36_DeleteCausesNoCall ==
    /\ \A j \in 1..Len(calls) :
          calls[j].entry > 0 => geodiff_obj.geodiff[calls[j].entry].type # "delete"
    /\ (Processed /\ LastEntry.type = "delete") =>
          (last.calls = <<>> /\ ~last.response.called /\ ~last.result.called)
    /\ OnlyDeletes => calls \in {<<>>, <<Tagged(CliCall(AuthArgs("pa")), 0)>>}

\* a finished run of two deletes, the first succeeded and the second failed:
\* the log holds the authentication alone
C36_Witness ==
    /\ pc = "done"
    /\ OnlyDeletes
    /\ Len(results) = 2
    /\ results[1].success
    /\ ~results[2].success
    /\ calls = <<Tagged(CliCall(AuthArgs("pa")), 0)>>

(* C37 *)

\* load_geodiff_report returned None
LoadFailed == pc # "load" /\ ~geodiff_obj.some

\* authenticate_cli was called and returned False
AuthenticationFailed == auth.called /\ ~authenticate_cli(auth)

\* C37: run_action calls set_failed if and only if the run is run-fatal
\* (report load failure or authentication failure), and then once; a run in
\* which only entries fail returns false without calling set_failed, and a
\* run that returns true never calls it.
C37_SetFailedIffRunFatal ==
    /\ set_failed # <<>> <=> (LoadFailed \/ AuthenticationFailed)
    /\ Len(set_failed) <= 1
    /\ Authenticated => set_failed = <<>>
    /\ ret = "true" => set_failed = <<>>

\* run_action returned false after an authenticated run in which an entry
\* failed, and set_failed was never called
C37_Witness ==
    /\ pc = "done"
    /\ ret = "false"
    /\ Authenticated
    /\ Len(results) = 2
    /\ results[1].success
    /\ ~results[2].success
    /\ set_failed = <<>>

====
